---- MODULE Spec2Model ----
(***************************************************************************)
(* Model of the toy Pratt expression parser of src/pratt.c.                *)
(*                                                                         *)
(* The parser is one synchronous call chain.  The model makes the C call   *)
(* stack explicit: every frame records the function, the position inside   *)
(* the function, and the locals the function reads after a call returns.   *)
(* One action is one straight-line stretch of code between two calls.      *)
(***************************************************************************)
EXTENDS Integers, Sequences, FiniteSets, TLC

VARIABLES text, input, output, stack, fatal

vars == <<text, input, output, stack, fatal>>

----------------------------------------------------------------------------
(* Bounds of the model.                                                    *)

\* Capacity of the output buffer (1024 in the source, scaled down so that
\* a full buffer is reached by short inputs).
MAX_OUTPUT == 6

\* Every string over Symbols of at most MaxLen tokens is an input.
MaxLen == 4

\* Every string over CoreSymbols of at most MaxCoreLen tokens is an input.
MaxCoreLen == 5

\* Chains of '~' and of binary operators go this far past the capacity.
Over == 1

----------------------------------------------------------------------------
(* Characters.                                                             *)

NUL == "NUL"

Upper == {"A","B","C","D","E","F","G","H","I","J","K","L","M",
          "N","O","P","Q","R","S","T","U","V","W","X","Y","Z"}

Lower == {"a","b","c","d","e","f","g","h","i","j","k","l","m",
          "n","o","p","q","r","s","t","u","v","w","x","y","z"}

\* isalpha() in the C locale.
isalpha_accepts_other(ch) == ch \in Upper \cup Lower \cup {"?"}

isalpha(ch) == ch \in Upper \cup Lower

BinaryOps == {"+", "-", "*", "/", "="}

\* The symbols the exhaustive inputs are drawn from: one variable, the
\* prefix operator, the binary operators, the grouping symbols and one
\* symbol outside the language.
Symbols == {"a", "~", "+", "-", "*", "/", "=", "(", ")", "?"}

\* A smaller set of symbols, for longer exhaustive inputs.
CoreSymbols == {"a", "~", "*", "=", "(", ")"}

\* The variables the shaped inputs are drawn from.
Vars == {"a", "B", "z"}

----------------------------------------------------------------------------
(* Operator table.                                                         *)

Operator(p, r) == [precedence |-> p, right_associative |-> r]

NULL == [precedence |-> -1, right_associative |-> FALSE]

assignment_op == Operator(1, TRUE)
additive_op == Operator(10, FALSE)
multiplicative_op == Operator(20, FALSE)

operator_info_flat(ch) ==
    CASE ch = "=" -> assignment_op
      [] ch \in {"+", "-"} -> additive_op
      [] ch \in {"*", "/"} -> additive_op
      [] OTHER -> NULL

operator_info(ch) ==
    CASE ch = "=" -> assignment_op
      [] ch \in {"+", "-"} -> additive_op
      [] ch \in {"*", "/"} -> multiplicative_op
      [] OTHER -> NULL

----------------------------------------------------------------------------
(* Parser state helpers.                                                   *)

NoPanic == <<>>

\* panic(): the message and its arguments; the process exits.
panic(msg) == msg

\* emit(): the buffer is full when output has reached output_end.
output_full_late(out) == Len(out) = MAX_OUTPUT + 1

output_full(out) == Len(out) = MAX_OUTPUT

\* emit(): *p->output++ = ch.
written_twice(out, ch) == Append(Append(out, ch), ch)

written_nothing_for_operator(out, ch) ==
    IF ch \in BinaryOps THEN out ELSE Append(out, ch)

written(out, ch) == Append(out, ch)

\* peek_next_char(): *p->input.
peek_next_char == text[input]

\* next_char(): the cursor after the read; it stays on the terminator.
next_input_stuck(pos) == pos

next_input(pos) == IF text[pos] # NUL THEN pos + 1 ELSE pos

\* expect(): the comparison that decides the panic.
mismatch_never(got, expected) == FALSE

mismatch(got, expected) == got # expected

Frame(fn, pc, precedence, ch) ==
    [fn |-> fn, pc |-> pc, precedence |-> precedence, ch |-> ch]

ParseFrame(pc) == Frame("parse", pc, 0, NUL)
ExprFrame(precedence) == Frame("parse_expr", "primary", precedence, NUL)
PrimaryFrame == Frame("parse_primary", "start", 0, NUL)

Top == stack[Len(stack)]
Pop == SubSeq(stack, 1, Len(stack) - 1)
ReplaceTop(f) == Append(Pop, f)

Running == fatal = NoPanic /\ stack # <<>>
Succeeded == fatal = NoPanic /\ stack = <<>>
Failed == fatal # NoPanic
Finished == ~Running

In(fn, pc) == Running /\ Top.fn = fn /\ Top.pc = pc

\* emit(p, ch) followed by the rest of the caller up to its next call.
emit(ch, rest) ==
    IF output_full(output)
    THEN /\ fatal' = panic(<<"output overflow">>)
         /\ UNCHANGED <<output, stack>>
    ELSE /\ output' = written(output, ch)
         /\ stack' = rest
         /\ UNCHANGED fatal

----------------------------------------------------------------------------
(* parse_primary                                                           *)

\* The operand of '~' is parsed by parse_primary.
unary_operand_is_expr == ExprFrame(0)

unary_operand == PrimaryFrame

\* The content of a group is parsed with the lowest floor.
group_floor_high == multiplicative_op.precedence

group_floor == 0

\* case '~': parse_primary(p) ...
parse_primary_unary ==
    /\ In("parse_primary", "start")
    /\ text[input] = "~"
    /\ input' = next_input(input)
    /\ stack' = Append(ReplaceTop(Frame("parse_primary", "emit", 0, "~")),
                       unary_operand)
    /\ UNCHANGED <<text, output, fatal>>

\* ... emit(p, '~').
parse_primary_unary_emit ==
    /\ In("parse_primary", "emit")
    /\ emit("~", Pop)
    /\ UNCHANGED <<text, input>>

\* case '(': parse_expr(p, 0) ...
parse_primary_group ==
    /\ In("parse_primary", "start")
    /\ text[input] = "("
    /\ input' = next_input(input)
    /\ stack' = Append(ReplaceTop(Frame("parse_primary", "expect", 0, "(")),
                       ExprFrame(group_floor))
    /\ UNCHANGED <<text, output, fatal>>

\* ... expect(p, ')').
parse_primary_group_close ==
    /\ In("parse_primary", "expect")
    /\ LET got == text[input] IN
       /\ input' = next_input(input)
       /\ IF mismatch(got, ")")
          THEN fatal' = panic(<<"expected", ")", got>>) /\ UNCHANGED stack
          ELSE stack' = Pop /\ UNCHANGED fatal
    /\ UNCHANGED <<text, output>>

\* default: a variable is emitted.
parse_primary_variable ==
    /\ In("parse_primary", "start")
    /\ text[input] \notin {"~", "("}
    /\ isalpha(text[input])
    /\ input' = next_input(input)
    /\ emit(text[input], Pop)
    /\ UNCHANGED text

\* default: anything else is fatal.
parse_primary_unexpected ==
    /\ In("parse_primary", "start")
    /\ text[input] \notin {"~", "("}
    /\ ~isalpha(text[input])
    /\ input' = next_input(input)
    /\ fatal' = panic(<<"unexpected character", text[input]>>)
    /\ UNCHANGED <<text, output, stack>>

----------------------------------------------------------------------------
(* parse_expr                                                              *)

\* The loop's exit test.
loop_returns(precedence, opi) ==
    opi = NULL \/ precedence >= opi.precedence

\* The floor of the recursive call that parses the right operand.
right_floor_no_assoc(opi) == opi.precedence

right_floor(opi) ==
    opi.precedence - (IF opi.right_associative THEN 1 ELSE 0)

\* parse_primary(p) at the head of parse_expr.
parse_expr_primary ==
    /\ In("parse_expr", "primary")
    /\ stack' = Append(ReplaceTop([Top EXCEPT !.pc = "loop"]), PrimaryFrame)
    /\ UNCHANGED <<text, input, output, fatal>>

\* The loop sees no operator above the floor: return.
parse_expr_return ==
    /\ In("parse_expr", "loop")
    /\ loop_returns(Top.precedence, operator_info(peek_next_char))
    /\ stack' = Pop
    /\ UNCHANGED <<text, input, output, fatal>>

\* The loop consumes the operator and parses its right operand.
parse_expr_operator ==
    /\ In("parse_expr", "loop")
    /\ ~loop_returns(Top.precedence, operator_info(peek_next_char))
    /\ LET ch == peek_next_char
           opi == operator_info(ch)
       IN /\ input' = next_input(input)
          /\ stack' = Append(ReplaceTop([Top EXCEPT !.pc = "emit", !.ch = ch]),
                             ExprFrame(right_floor(opi)))
    /\ UNCHANGED <<text, output, fatal>>

\* emit(p, ch) after the right operand, then the loop goes on.
parse_expr_emit ==
    /\ In("parse_expr", "emit")
    /\ emit(Top.ch, ReplaceTop([Top EXCEPT !.pc = "loop"]))
    /\ UNCHANGED <<text, input>>

----------------------------------------------------------------------------
(* parse                                                                   *)

\* parse_expr(&parser, 0).
parse_call ==
    /\ In("parse", "call")
    /\ stack' = Append(ReplaceTop(ParseFrame("finish")), ExprFrame(0))
    /\ UNCHANGED <<text, input, output, fatal>>

\* expect(&parser, '\0'); emit(&parser, '\0').
parse_finish ==
    /\ In("parse", "finish")
    /\ LET got == text[input] IN
       /\ input' = next_input(input)
       /\ IF mismatch(got, NUL)
          THEN fatal' = panic(<<"expected", NUL, got>>)
               /\ UNCHANGED <<output, stack>>
          ELSE emit(NUL, Pop)
    /\ UNCHANGED text

----------------------------------------------------------------------------
(* Inputs.                                                                 *)

Strings(S, n) == UNION {[1..k -> S] : k \in 0..n}

\* k copies of '~' followed by x.
Tildes(k, x) == [i \in 1..(k + 1) |-> IF i <= k THEN "~" ELSE x]

\* n tokens x o x o ... (a chain of one operator).
Chain(n, x, o) == [i \in 1..n |-> IF i % 2 = 1 THEN x ELSE o]

Shaped ==
    {<<x, o1, y, o2, z>> : x \in Vars, y \in Vars, z \in Vars,
                           o1 \in BinaryOps, o2 \in BinaryOps}

ShapedInputs ==
         Shaped
    \cup {<<"(", s[1], s[2], s[3], ")", s[4], s[5]>> : s \in Shaped}
    \cup {<<s[1], s[2], "(", s[3], s[4], s[5], ")">> : s \in Shaped}
    \cup {<<x, o, "~", y>> : x \in Vars, y \in Vars, o \in BinaryOps}
    \cup {<<"~", x, o, y>> : x \in Vars, y \in Vars, o \in BinaryOps}

LongInputs ==
         {Tildes(k, x) : k \in 1..(MAX_OUTPUT + Over), x \in Vars}
    \cup {Chain(n, "a", o) : n \in 1..(MAX_OUTPUT + Over + 2), o \in {"+", "="}}

Inputs ==
         Strings(Symbols, MaxLen)
    \cup Strings(CoreSymbols, MaxCoreLen)
    \cup ShapedInputs
    \cup LongInputs

----------------------------------------------------------------------------
(* Specification.                                                          *)

Init ==
    /\ text \in {Append(s, NUL) : s \in Inputs}
    /\ input = 1
    /\ output = <<>>
    /\ stack = <<ParseFrame("call")>>
    /\ fatal = NoPanic

Next ==
    \/ parse_call
    \/ parse_finish
    \/ parse_expr_primary
    \/ parse_expr_return
    \/ parse_expr_operator
    \/ parse_expr_emit
    \/ parse_primary_unary
    \/ parse_primary_unary_emit
    \/ parse_primary_group
    \/ parse_primary_group_close
    \/ parse_primary_variable
    \/ parse_primary_unexpected

Spec == Init /\ [][Next]_vars

\* The parse is one unbroken call chain: it always takes its next step.
FairSpec == Spec /\ WF_vars(Next)

----------------------------------------------------------------------------
(* Vocabulary of the properties.                                           *)

Variables == Upper \cup Lower

LeftClasses == {{"+", "-"}, {"*", "/"}}
RightClasses == {{"="}}

\* Precedence classes, ordered {*,/} > {+,-} > {=}.
Rank(o) == CASE o \in {"*", "/"} -> 3
             [] o \in {"+", "-"} -> 2
             [] o = "=" -> 1

UnexpectedToken(sym) == <<"unexpected character", sym>>
TokenMismatch(expected, got) == <<"expected", expected, got>>
OutputOverflow == <<"output overflow">>

IsUnexpectedToken == Len(fatal) = 2 /\ fatal[1] = "unexpected character"
IsTokenMismatch == Len(fatal) = 3 /\ fatal[1] = "expected"

\* The input without its terminator.
Tokens == SubSeq(text, 1, Len(text) - 1)

Count(s, c) == Cardinality({i \in DOMAIN s : s[i] = c})

Parens == {"(", ")"}

\* The number of input tokens that are not parentheses.
Emittable == Cardinality({i \in DOMAIN Tokens : Tokens[i] \notin Parens})

\* The capacity is large enough for this input and its end sentinel.
Fits == Emittable + 1 <= MAX_OUTPUT

\* The input has the shape  v o v o v.
IsChain3 ==
    /\ Len(Tokens) = 5
    /\ \A i \in {1, 3, 5} : Tokens[i] \in Variables
    /\ \A i \in {2, 4} : Tokens[i] \in BinaryOps

\* The parse has ended in success with this output before the sentinel.
Yields(s) == Succeeded /\ output = Append(s, NUL)

----------------------------------------------------------------------------
\* C1 - Associativity: 'x o1 y o2 z' with o1, o2 of one precedence class
\* parses to 'x y o1 z o2' when the class is left-associative ({+,-} or
\* {*,/}) and to 'x y z o2 o1' when it is right-associative ({=}).
C1_Associativity ==
    (Finished /\ IsChain3) =>
        LET x == Tokens[1]  o1 == Tokens[2]  y == Tokens[3]
            o2 == Tokens[4]  z == Tokens[5]
        IN /\ (\E c \in LeftClasses : o1 \in c /\ o2 \in c)
                  => Yields(<<x, y, o1, z, o2>>)
           /\ (\E c \in RightClasses : o1 \in c /\ o2 \in c)
                  => Yields(<<x, y, z, o2, o1>>)

C1_Witness ==
    /\ IsChain3 /\ Tokens[2] = "=" /\ Tokens[4] = "="
    /\ Yields(<<Tokens[1], Tokens[3], Tokens[5], "=", "=">>)

----------------------------------------------------------------------------
\* C2 - Precedence: with h of a strictly higher class than l, 'x l y h z'
\* parses to 'x y z h l', and 'x h y l z' parses to 'x y h z l' when l is
\* left-associative (+ or -).
C2_Precedence ==
    (Finished /\ IsChain3) =>
        LET x == Tokens[1]  o1 == Tokens[2]  y == Tokens[3]
            o2 == Tokens[4]  z == Tokens[5]
        IN /\ Rank(o1) < Rank(o2) => Yields(<<x, y, z, o2, o1>>)
           /\ (Rank(o1) > Rank(o2) /\ o2 \in {"+", "-"})
                  => Yields(<<x, y, o1, z, o2>>)

C2_Witness ==
    /\ IsChain3 /\ Tokens[2] = "=" /\ Tokens[4] = "+"
    /\ Yields(<<Tokens[1], Tokens[3], Tokens[5], "+", "=">>)

----------------------------------------------------------------------------
\* C3 - Grouping overrides precedence: '(x o1 y) o2 z' parses to
\* 'x y o1 z o2' and 'x o1 (y o2 z)' parses to 'x y z o2 o1' for all binary
\* operators o1, o2; the parentheses emit nothing.
IsGroupLeft ==
    /\ Len(Tokens) = 7
    /\ Tokens[1] = "(" /\ Tokens[5] = ")"
    /\ \A i \in {2, 4, 7} : Tokens[i] \in Variables
    /\ \A i \in {3, 6} : Tokens[i] \in BinaryOps

IsGroupRight ==
    /\ Len(Tokens) = 7
    /\ Tokens[3] = "(" /\ Tokens[7] = ")"
    /\ \A i \in {1, 4, 6} : Tokens[i] \in Variables
    /\ \A i \in {2, 5} : Tokens[i] \in BinaryOps

C3_Grouping ==
    Finished =>
        /\ IsGroupLeft =>
             Yields(<<Tokens[2], Tokens[4], Tokens[3], Tokens[7], Tokens[6]>>)
        /\ IsGroupRight =>
             Yields(<<Tokens[1], Tokens[4], Tokens[6], Tokens[5], Tokens[2]>>)

C3_Witness ==
    /\ IsGroupRight /\ Tokens[2] = "*" /\ Tokens[5] = "+"
    /\ Yields(<<Tokens[1], Tokens[4], Tokens[6], "+", "*">>)

----------------------------------------------------------------------------
\* C4 - Unary prefix operator: k >= 1 copies of '~' followed by x parse to
\* x followed by k copies of '~' (when the capacity holds them); 'x o ~y'
\* parses to 'x y ~ o' and '~x o y' to 'x ~ y o' for every binary operator o.
IsTildes ==
    /\ Len(Tokens) >= 2
    /\ Tokens[Len(Tokens)] \in Variables
    /\ \A i \in 1..(Len(Tokens) - 1) : Tokens[i] = "~"

IsUnaryRight ==
    /\ Len(Tokens) = 4
    /\ Tokens[1] \in Variables /\ Tokens[2] \in BinaryOps
    /\ Tokens[3] = "~" /\ Tokens[4] \in Variables

IsUnaryLeft ==
    /\ Len(Tokens) = 4
    /\ Tokens[1] = "~" /\ Tokens[2] \in Variables
    /\ Tokens[3] \in BinaryOps /\ Tokens[4] \in Variables

----------------------------------------------------------------------------
(* The grammar of the input language:                                      *)
(*   program -> expr END                                                   *)
(*   expr    -> primary | expr binary_op expr                              *)
(*   primary -> variable | unary_op primary | '(' expr ')'                 *)

RECURSIVE IsExpr(_), IsPrimary(_)

IsPrimary(s) ==
    /\ Len(s) >= 1
    /\ \/ Len(s) = 1 /\ s[1] \in Variables
       \/ s[1] = "~" /\ IsPrimary(Tail(s))
       \/ /\ Len(s) >= 3
          /\ s[1] = "(" /\ s[Len(s)] = ")"
          /\ IsExpr(SubSeq(s, 2, Len(s) - 1))

IsExpr(s) ==
    \/ IsPrimary(s)
    \/ \E k \in 2..(Len(s) - 1) :
          /\ s[k] \in BinaryOps
          /\ IsExpr(SubSeq(s, 1, k - 1))
          /\ IsExpr(SubSeq(s, k + 1, Len(s)))

----------------------------------------------------------------------------
(* Error kinds.                                                            *)

\* An operand may follow u / an operator or a closing parenthesis may
\* follow u, for u a beginning of some program.
RECURSIVE OperandNext(_), OperatorNext(_)

OperandNext(u) ==
    \/ u = <<>>
    \/ /\ u # <<>>
       /\ LET c == u[Len(u)]  front == SubSeq(u, 1, Len(u) - 1)
          IN \/ c \in {"~", "("} /\ OperandNext(front)
             \/ c \in BinaryOps /\ OperatorNext(front)

OperatorNext(u) ==
    /\ u # <<>>
    /\ LET c == u[Len(u)]  front == SubSeq(u, 1, Len(u) - 1)
       IN \/ c \in Variables /\ OperandNext(front)
          \/ /\ c = ")"
             /\ Count(front, "(") > Count(front, ")")
             /\ OperatorNext(front)

\* (1) an empty input or a leading symbol that starts no primary.
LeadingError ==
    (Finished /\ text[1] \notin Variables \cup {"~", "("})
        => fatal = UnexpectedToken(text[1])

\* (3) symbols left after a complete expression.
TrailingError ==
    (Finished /\ Fits) =>
        \A j \in 1..(Len(Tokens) - 1) :
            (IsExpr(SubSeq(Tokens, 1, j)) /\ Tokens[j + 1] \notin BinaryOps)
                => fatal = TokenMismatch(NUL, Tokens[j + 1])

\* A group the parser has opened and not closed.
GroupOpen ==
    \E i \in DOMAIN stack :
        stack[i].fn = "parse_primary" /\ stack[i].pc = "expect"

\* (2) as stated: every unterminated group ends in TokenMismatch.
UnterminatedGroupError ==
    (Finished /\ Fits /\ GroupOpen)
        => (IsTokenMismatch /\ fatal[2] = ")")

\* (2) as it holds: the group's content is a complete expression and the
\* symbol after it is neither a binary operator nor ')'.
UnclosedGroupError ==
    (Finished /\ Fits) =>
        \A i \in 1..Len(Tokens) : \A j \in (i + 1)..Len(Tokens) :
            ( /\ Tokens[i] = "("
              /\ text[j + 1] \notin BinaryOps \cup {")"}
              /\ OperandNext(SubSeq(Tokens, 1, i - 1))
              /\ IsExpr(SubSeq(Tokens, i + 1, j)) )
                => fatal = TokenMismatch(")", text[j + 1])

\* (2) the other parses that end inside an opened group: the content of
\* the group is empty or incomplete, and the error is UnexpectedToken.
OpenGroupError ==
    (Finished /\ Fits /\ GroupOpen)
        => (IsUnexpectedToken \/ (IsTokenMismatch /\ fatal[2] = ")"))

----------------------------------------------------------------------------
\* An emit is the next thing the parser does.
EmitPending ==
    \/ In("parse_primary", "emit")
    \/ In("parse_expr", "emit")
    \/ In("parse_primary", "start") /\ text[input] \in Variables
    \/ In("parse", "finish") /\ text[input] = NUL

\* C7 - Output capacity: the number of symbols written never exceeds
\* MAX_OUTPUT; an emit attempted on a full buffer, the end sentinel
\* included, fails with OutputOverflow without writing; a parse succeeds
\* only if its emitted tokens plus the end sentinel fit the capacity.
C7_Capacity ==
    /\ [](Len(output) <= MAX_OUTPUT)
    /\ [][(Len(output) = MAX_OUTPUT /\ EmitPending)
             => (output' = output /\ fatal' = OutputOverflow)]_vars
    /\ [](Succeeded => (Fits /\ Len(output) = Emittable + 1))

C7_Witness ==
    /\ fatal = OutputOverflow
    /\ Len(output) = MAX_OUTPUT
    /\ stack = <<ParseFrame("finish")>>

----------------------------------------------------------------------------
\* The input consumed so far, and the output without the end sentinel.
Consumed == SubSeq(text, 1, input - 1)

Emitted == IF Succeeded THEN SubSeq(output, 1, Len(output) - 1) ELSE output

\* C8 - One-to-one emission: in every state each emitted token (other than
\* the end sentinel) is the symbol of one consumed input token, none is
\* emitted twice, and no parenthesis is emitted; on success the output
\* before the sentinel is a rearrangement of the input without its
\* parentheses.
C8_OneToOne ==
    /\ \A i \in DOMAIN Emitted :
           /\ Emitted[i] \notin Parens
           /\ Count(Emitted, Emitted[i]) <= Count(Consumed, Emitted[i])
    /\ Succeeded =>
           /\ output[Len(output)] = NUL
           /\ Len(Emitted) = Len(Tokens) - Count(Tokens, "(") - Count(Tokens, ")")
           /\ \A i \in DOMAIN Tokens :
                  Tokens[i] \notin Parens
                      => Count(Emitted, Tokens[i]) = Count(Tokens, Tokens[i])

C8_Witness ==
    /\ Succeeded
    /\ Count(Tokens, "(") = 1 /\ Count(Tokens, "a") = 2
    /\ Len(Emitted) = 3

----------------------------------------------------------------------------
\* The operand counter of a postfix scan; -1 once it has underflowed.
RECURSIVE Operands(_)

Operands(s) ==
    IF s = <<>> THEN 0
    ELSE LET d == Operands(SubSeq(s, 1, Len(s) - 1))
             c == s[Len(s)]
         IN CASE d < 0 -> -1
              [] d >= 0 /\ c \in Variables -> d + 1
              [] d >= 1 /\ c = "~" -> d
              [] d >= 2 /\ c \in BinaryOps -> d - 1
              [] OTHER -> -1

\* C9 - Operator arity preservation: on success the output before the end
\* sentinel is a well-formed postfix expression: the scan never underflows
\* and ends at exactly one operand.
C9_Arity ==
    Succeeded =>
        /\ output[Len(output)] = NUL
        /\ Operands(SubSeq(output, 1, Len(output) - 1)) = 1

C9_Witness ==
    /\ Succeeded
    /\ Count(output, "~") >= 1
    /\ \E i \in DOMAIN output : output[i] \in BinaryOps
    /\ Len(output) >= 5

----------------------------------------------------------------------------
\* C10 - Termination and forward-only cursor: every parse reaches a
\* terminal state, success or the first fatal error, after which nothing
\* changes; the cursor never decreases and never passes the end marker;
\* every iteration of the climber's loop and every call of the primary
\* parser that does not fail consumes one input token.
C10_Termination ==
    /\ <>Finished
    /\ [](Failed => (IsUnexpectedToken \/ IsTokenMismatch
                        \/ fatal = OutputOverflow))
    /\ [][Running]_vars
    /\ [][input' >= input /\ input' <= Len(text) /\ text' = text]_vars
    /\ [][( \/ In("parse_expr", "loop") /\ Len(stack') > Len(stack)
            \/ In("parse_primary", "start") /\ fatal' = NoPanic )
             => input' = input + 1]_vars

C10_Witness ==
    /\ Succeeded
    /\ input = Len(text)
    /\ Len(text) >= 6

====
